---- MODULE Spec2Model ----
(***************************************************************************)
(* Project service of Freelance-TT: the request handlers createProject,    *)
(* getAllProjectsOfAUser, updateProject, deleteProject and                 *)
(* addMembersToProject (src/src/routes/user.routes.js) over the Project    *)
(* collection.  A handler runs up to the completion of its first database  *)
(* call in one step, and from one awaited database call to the next in     *)
(* each further step; no lock or transaction joins the steps.              *)
(*                                                                         *)
(* Strings of a request body are sequences of characters (a word such as   *)
(* "Alpha" is written as one symbol, " " is a whitespace character); an    *)
(* undefined property is a field that is not in the DOMAIN of the body.    *)
(***************************************************************************)
EXTENDS Integers, Sequences, FiniteSets, Bags, TLC

\* ---- bounds of the model ------------------------------------------------
\* number of createProject requests that get as far as the insert
MaxProjects == 2
\* number of requests suspended at an await at the same time
MaxInFlight == 2

\* ---- input domains ------------------------------------------------------
\* identifiers the store hands out, in order of allocation
ObjectIdPool == <<"p1", "p2", "p3", "p4", "p5", "p6">>
\* a string isValidObjectId rejects
InvalidId == "bad"
\* ids of the documents of the User collection (no handler here changes it)
Users == {"u1", "u2"}
\* the callers that create projects; the other user is an authenticated
\* caller who owns none
Creators == {"u1"}
\* a well-formed id of no user
UnknownUser == "u9"
\* placeholder of a request parameter the route does not have
NoParam == "-"

Names == {<<"Alpha">>, <<"Beta">>}
\* bodies of POST /createProject
CreateBodies ==
    [name: Names \cup {<<" ">>}, description: {<<"d">>},
     startDate: {<<"2024-01-01">>}, endDate: {<<"2024-12-31">>}]
    \cup [name: {<<"Alpha">>}, description: {<<"d">>},
          startDate: {<<"2024-01-01">>}, endDate: {<<>>}]
\* the five properties updateProject reads from the body
UpdateFields == {"name", "description", "startDate", "endDate", "status"}
\* bodies of PATCH /updateProject: any subset of the five properties
Patches ==
    { [f \in {} |-> <<>>],
      [description |-> <<>>],
      [name |-> <<"Alpha">>],
      [name |-> <<"Beta">>],
      [description |-> <<"d2">>, startDate |-> <<"2025-01-01">>,
       endDate |-> <<"2025-12-31">>, status |-> <<"done">>] }
ProjectIdParams == {ObjectIdPool[i] : i \in 1..MaxProjects} \cup {InvalidId}
\* the userId parameters of PATCH /addMembersToProject
UserIdParams == {"u2", UnknownUser, InvalidId}

\* the inputs of the requests that are in flight concurrently
ConcBodies == {b \in CreateBodies : b.name # <<"Beta">>}
ConcUserIdParams == {"u2"}

VARIABLES
    store,      \* the Project collection: _id -> document
    nextId,     \* index in ObjectIdPool of the next _id the store hands out
    inflight,   \* bag of the requests suspended at an await
    response    \* <<r>>: the response the last step sent; <<>>: it sent none

vars == <<store, nextId, inflight, response>>

\* ---- helpers of the language and of the database driver -----------------
IsWhitespace(c) == c = " "

\* String.prototype.trim
RECURSIVE trimStart(_)
trimStart(s) ==
    IF s # <<>> /\ IsWhitespace(Head(s)) THEN trimStart(Tail(s)) ELSE s

RECURSIVE trimEnd(_)
trimEnd(s) ==
    IF s # <<>> /\ IsWhitespace(s[Len(s)])
    THEN trimEnd(SubSeq(s, 1, Len(s) - 1)) ELSE s

trim(s) == trimEnd(trimStart(s))

\* !x of a destructured body property: undefined and "" are falsy
Falsy(body, f) == f \notin DOMAIN body \/ body[f] = <<>>

isValidObjectId(id) == id # InvalidId

\* the documents of a collection
Docs(coll) == {coll[i] : i \in DOMAIN coll}

\* Project.findOne({name}): {} is null
\* (variant: a findOne that matches nothing)
findOne_Mutant(coll, name) == {}
findOne(coll, name) ==
    LET hits == {d \in Docs(coll) : d.name = name}
    IN  IF hits = {} THEN {} ELSE {CHOOSE d \in hits : TRUE}

\* Project.findById(id): {} is null
findById(coll, id) == {d \in Docs(coll) : d._id = id}

\* the paths of the Project documents
SchemaPaths ==
    {"_id", "name", "description", "startDate", "endDate", "status",
     "owner", "members", "totalHours"}

\* Project.find(filter).  With strictQuery the paths that are not in the
\* schema are removed from the filter; without it they are matched against
\* the documents, none of which has them.
find(coll, filter, strictQuery) ==
    LET keys == IF strictQuery THEN DOMAIN filter \cap SchemaPaths
                ELSE DOMAIN filter
    IN  {d \in Docs(coll) :
            \A k \in keys : k \in DOMAIN d /\ d[k] = filter[k]}

\* the value a created project has for status, which createProject leaves out
DefaultStatus == <<"default">>

\* the document Project.create builds
\* (variant: the owner is not taken from the caller)
NewProject_Mutant(id, body, userId) ==
    [_id |-> id, name |-> body.name, description |-> body.description,
     startDate |-> body.startDate, endDate |-> body.endDate,
     status |-> DefaultStatus, owner |-> NoParam, members |-> <<>>,
     totalHours |-> 0]
NewProject(id, body, userId) ==
    [_id |-> id, name |-> body.name, description |-> body.description,
     startDate |-> body.startDate, endDate |-> body.endDate,
     status |-> DefaultStatus, owner |-> userId, members |-> <<>>,
     totalHours |-> 0]

\* Project.create: the insert; nothing but the _id is unique
\* (variant: an insert under a unique index on name)
create_Mutant(coll, doc) ==
    IF \E d \in Docs(coll) : d.name = doc.name THEN coll
    ELSE coll @@ (doc._id :> doc)
create(coll, doc) == (doc._id :> doc) @@ coll

\* {$set: {name, description, startDate, endDate, status}}: the keys whose
\* value is undefined are dropped from the update
\* (variant: the undefined keys are written as null)
Null == <<"null">>
set_Mutant(doc, patch) ==
    [f \in DOMAIN doc |->
        IF f \in DOMAIN patch THEN patch[f]
        ELSE IF f \in UpdateFields THEN Null ELSE doc[f]]
set(doc, patch) ==
    [f \in DOMAIN doc |-> IF f \in DOMAIN patch THEN patch[f] ELSE doc[f]]

\* Project.findByIdAndUpdate(id, {$set: patch}, {new: true}) on a stored id
findByIdAndUpdate(coll, id, patch) ==
    [coll EXCEPT ![id] = set(coll[id], patch)]

\* Project.findByIdAndDelete(id) on a stored id
\* (variant: the document is found and not removed)
findByIdAndDelete_Mutant(coll, id) == coll
findByIdAndDelete(coll, id) == [i \in DOMAIN coll \ {id} |-> coll[i]]

\* project.owner.toString() === req.user._id.toString()
\* (variant: no owner check)
IsOwner_Mutant(project, user) == TRUE
IsOwner(project, user) == project.owner = user

\* project.members.includes(userId)
includes(members, userId) == \E i \in 1..Len(members) : members[i] = userId

\* project.save() after members.push(userId): the update sent is
\* {$push: {members: userId}}, applied to the stored array
save(coll, id, userId) ==
    [coll EXCEPT ![id].members = Append(@, userId)]

\* ---- requests and responses ---------------------------------------------
Request(op, user, projectId, userId, body) ==
    [op |-> op, user |-> user, projectId |-> projectId, userId |-> userId,
     body |-> body]

NoBody == [f \in {} |-> <<>>]

\* res.status(status).json({msg, ...docs}), or an ApiError(status, msg)
\* thrown to the error responder
Respond(req, status, msg, docs) ==
    response' = <<[req |-> req, status |-> status, msg |-> msg, docs |-> docs]>>

Suspend(req, pc, doc) ==
    /\ inflight' = inflight (+) SetToBag({[req |-> req, pc |-> pc, doc |-> doc]})
    /\ response' = <<>>

Resume(e) == inflight' = inflight (-) SetToBag({e})

Suspended(pc) == {e \in BagToSet(inflight) : e.pc = pc}

\* the createProject requests that passed the check and have yet to insert
PendingCreates ==
    BagCardinality([e \in Suspended("create") |-> inflight[e]])

\* a request is admitted when the server is idle (requests one at a time),
\* or when fewer than MaxInFlight are suspended (concurrent requests)
Admit(serial) ==
    IF serial THEN inflight = EmptyBag
    ELSE BagCardinality(inflight) < MaxInFlight

\* the taxonomy of the failures, by the message the handler sends
ErrorKind(r) ==
    CASE r.msg = "All fields are required" -> "ValidationError"
      [] r.msg = "Enter some details to change/update" -> "ValidationError"
      [] r.msg = "Invalid objectId or project ID" -> "ValidationError"
      [] r.msg = "Invalid projectId or UserId" -> "ValidationError"
      [] r.msg = "Project with this name alraeady exists" -> "ConflictError"
      [] r.msg = "User is already a member of this project" -> "ConflictError"
      [] r.msg = "You are not authorized to make changes to this project!!"
            -> "AuthorizationError"
      [] r.msg = "You are not the owner of this project, only owner can add members"
            -> "AuthorizationError"
      [] r.msg = "Project not found to delete" -> "NotFoundError"
      [] r.msg = "Project not found to add members!!" -> "NotFoundError"
      [] r.msg = "User not found to add members!!" -> "NotFoundError"
      [] r.status = 200 -> "none"
      [] OTHER -> "ServerError"

Init ==
    /\ store = [i \in {} |-> NoBody]
    /\ nextId = 1
    /\ inflight = EmptyBag
    /\ response = <<>>

\* ---- createProject ------------------------------------------------------
\* the blank check, then Project.findOne({name})
createProject(serial, body, user) ==
    LET req == Request("createProject", user, NoParam, NoParam, body)
    IN  /\ Admit(serial)
        /\ UNCHANGED <<store, nextId>>
        /\ IF \E f \in {"name", "description", "startDate", "endDate"} :
                  trim(body[f]) = <<>>
           THEN /\ Respond(req, 400, "All fields are required", {})
                /\ UNCHANGED inflight
           ELSE IF findOne(store, body.name) # {}
           THEN /\ Respond(req, 400, "Project with this name alraeady exists", {})
                /\ UNCHANGED inflight
           ELSE /\ nextId + PendingCreates <= MaxProjects
                /\ Suspend(req, "create", {})

\* Project.create({...}), then the 200 response
createProject_create(e) ==
    LET doc == NewProject(ObjectIdPool[nextId], e.req.body, e.req.user)
    IN  /\ e \in Suspended("create")
        /\ store' = create(store, doc)
        /\ nextId' = nextId + 1
        /\ Resume(e)
        /\ Respond(e.req, 200, "Project Created Successfully", {doc})

\* ---- getAllProjectsOfAUser ----------------------------------------------
\* Project.find({ userId }); strictQuery is the setting of the build
getAllProjectsOfAUser(serial, user, strictQuery) ==
    LET req == Request("getAllProjectsOfAUser", user, NoParam, NoParam, NoBody)
    IN  /\ Admit(serial)
        /\ UNCHANGED <<store, nextId, inflight>>
        /\ Respond(req, 200, "All project of user fetched successfully!!",
                   find(store, [userId |-> user], strictQuery))

\* ---- updateProject ------------------------------------------------------
\* the empty-body check, Project.findById and the owner check; project.owner
\* of a null project throws a TypeError, and findById of a malformed id a
\* CastError: both end in the catch block
updateProject(serial, projectId, patch, user) ==
    LET req == Request("updateProject", user, projectId, NoParam, patch)
        project == findById(store, projectId)
    IN  /\ Admit(serial)
        /\ UNCHANGED <<store, nextId>>
        /\ IF \A f \in UpdateFields : Falsy(patch, f)
           THEN /\ Respond(req, 400, "Enter some details to change/update", {})
                /\ UNCHANGED inflight
           ELSE IF ~isValidObjectId(projectId) \/ project = {}
           THEN /\ Respond(req, 500,
                     "Some server error occured while updating project!! :(", {})
                /\ UNCHANGED inflight
           ELSE IF \E p \in project : ~IsOwner(p, user)
           THEN /\ Respond(req, 400,
                     "You are not authorized to make changes to this project!!", {})
                /\ UNCHANGED inflight
           ELSE Suspend(req, "findByIdAndUpdate", {})

\* Project.findByIdAndUpdate, then the response
updateProject_findByIdAndUpdate(e) ==
    /\ e \in Suspended("findByIdAndUpdate")
    /\ Resume(e)
    /\ UNCHANGED nextId
    /\ IF e.req.projectId \in DOMAIN store
       THEN /\ store' = findByIdAndUpdate(store, e.req.projectId, e.req.body)
            /\ Respond(e.req, 200, "Project updated successfully!!",
                       {store'[e.req.projectId]})
       ELSE /\ UNCHANGED store
            /\ Respond(e.req, 401, "Something went wrong while updating project", {})

\* ---- deleteProject ------------------------------------------------------
deleteProject(serial, projectId, user) ==
    LET req == Request("deleteProject", user, projectId, NoParam, NoBody)
    IN  /\ Admit(serial)
        /\ UNCHANGED <<nextId, inflight>>
        /\ IF ~isValidObjectId(projectId)
           THEN /\ Respond(req, 401, "Invalid objectId or project ID", {})
                /\ UNCHANGED store
           ELSE IF projectId \notin DOMAIN store
           THEN /\ Respond(req, 404, "Project not found to delete", {})
                /\ UNCHANGED store
           ELSE /\ store' = findByIdAndDelete(store, projectId)
                /\ Respond(req, 200, "Project deleted successfully!!",
                           {store[projectId]})

\* ---- addMembersToProject ------------------------------------------------
\* the id checks and Project.findById
addMembersToProject(serial, projectId, userId, user) ==
    LET req == Request("addMembersToProject", user, projectId, userId, NoBody)
        project == findById(store, projectId)
    IN  /\ Admit(serial)
        /\ UNCHANGED <<store, nextId>>
        /\ IF ~isValidObjectId(projectId) \/ ~isValidObjectId(userId)
           THEN /\ Respond(req, 401, "Invalid projectId or UserId", {})
                /\ UNCHANGED inflight
           ELSE IF project = {}
           THEN /\ Respond(req, 404, "Project not found to add members!!", {})
                /\ UNCHANGED inflight
           ELSE Suspend(req, "findUser", project)

\* User.findById, the owner check, the membership check on the loaded
\* document and members.push on it
addMembersToProject_findUser(e) ==
    /\ e \in Suspended("findUser")
    /\ UNCHANGED <<store, nextId>>
    /\ LET project == CHOOSE p \in e.doc : TRUE
       IN  IF e.req.userId \notin Users
           THEN /\ Resume(e)
                /\ Respond(e.req, 404, "User not found to add members!!", {})
           ELSE IF ~IsOwner(project, e.req.user)
           THEN /\ Resume(e)
                /\ Respond(e.req, 401,
                     "You are not the owner of this project, only owner can add members", {})
           ELSE IF includes(project.members, e.req.userId)
           THEN /\ Resume(e)
                /\ Respond(e.req, 401, "User is already a member of this project", {})
           ELSE /\ inflight' = (inflight (-) SetToBag({e})) (+)
                      SetToBag({[e EXCEPT !.pc = "save",
                          !.doc = {[project EXCEPT
                              !.members = Append(@, e.req.userId)]}]})
                /\ response' = <<>>

\* project.save(), then the 200 response; the save of a document that was
\* deleted meanwhile throws DocumentNotFoundError
addMembersToProject_save(e) ==
    /\ e \in Suspended("save")
    /\ Resume(e)
    /\ UNCHANGED nextId
    /\ IF e.req.projectId \in DOMAIN store
       THEN /\ store' = save(store, e.req.projectId, e.req.userId)
            /\ Respond(e.req, 200, "Member added successfully!!", e.doc)
       ELSE /\ UNCHANGED store
            /\ Respond(e.req, 500, "DocumentNotFoundError", {})

\* ---- specifications -----------------------------------------------------
\* requests executed one at a time: a request is admitted when none is
\* suspended
Next ==
    \/ \E body \in CreateBodies, user \in Creators :
          createProject(TRUE, body, user)
    \/ \E e \in BagToSet(inflight) : createProject_create(e)
    \/ \E user \in Users, strictQuery \in BOOLEAN :
          getAllProjectsOfAUser(TRUE, user, strictQuery)
    \/ \E projectId \in ProjectIdParams, patch \in Patches, user \in Users :
          updateProject(TRUE, projectId, patch, user)
    \/ \E e \in BagToSet(inflight) : updateProject_findByIdAndUpdate(e)
    \/ \E projectId \in ProjectIdParams, user \in Users :
          deleteProject(TRUE, projectId, user)
    \/ \E projectId \in ProjectIdParams, userId \in UserIdParams, user \in Users :
          addMembersToProject(TRUE, projectId, userId, user)
    \/ \E e \in BagToSet(inflight) : addMembersToProject_findUser(e)
    \/ \E e \in BagToSet(inflight) : addMembersToProject_save(e)

Spec == Init /\ [][Next]_vars

\* createProject, deleteProject and addMembersToProject requests of one caller
\* in flight concurrently, their steps interleaved in any order
ConcNext ==
    \/ \E body \in ConcBodies, user \in Creators :
          createProject(FALSE, body, user)
    \/ \E e \in BagToSet(inflight) : createProject_create(e)
    \/ \E projectId \in ProjectIdParams, user \in Creators :
          deleteProject(FALSE, projectId, user)
    \/ \E projectId \in ProjectIdParams, userId \in ConcUserIdParams,
          user \in Creators :
          addMembersToProject(FALSE, projectId, userId, user)
    \/ \E e \in BagToSet(inflight) : addMembersToProject_findUser(e)
    \/ \E e \in BagToSet(inflight) : addMembersToProject_save(e)

ConcSpec == Init /\ [][ConcNext]_vars

\* ---- properties ---------------------------------------------------------
CreateFields == {"name", "description", "startDate", "endDate"}

\* the step answers a request of the operation op
Answers(op) == response' # <<>> /\ response'[1].req.op = op

\* the state follows the answer to a request of the operation op
Answered(op) == response # <<>> /\ response[1].req.op = op

NonBlank(body) == \A f \in CreateFields : trim(body[f]) # <<>>

NameStored(name) == \E d \in Docs(store) : d.name = name

\* the step suspends the request entry e
Suspends(e) == CopiesIn(e, inflight') > CopiesIn(e, inflight)

\* the step resumes the suspended request entry e
Resumes(e) == CopiesIn(e, inflight') < CopiesIn(e, inflight)

\* C1: no two stored projects have the same name (requests one at a time).
C1_UniqueNames ==
    \A i, j \in DOMAIN store : store[i].name = store[j].name => i = j

\* C2: a user id appears at most once in the members of a project, in every
\* interleaving of the requests in flight.
C2_NoDuplicateMembers ==
    \A i \in DOMAIN store :
        \A a, b \in 1..Len(store[i].members) :
            store[i].members[a] = store[i].members[b] => a = b

\* C3 as stated: updateProject by a caller who is not the owner of an
\* existing project always fails with AuthorizationError and leaves the
\* store as it was.
C3_NonOwnerAlwaysAuthorizationError ==
    [][(/\ Answers("updateProject")
        /\ response'[1].req.projectId \in DOMAIN store
        /\ store[response'[1].req.projectId].owner # response'[1].req.user)
       => (/\ ErrorKind(response'[1]) = "AuthorizationError"
           /\ store' = store)]_vars

\* C3 amended: updateProject with a body in which one of the five properties
\* is non-empty, by a caller who is not the owner of an existing project,
\* fails with AuthorizationError and leaves the store as it was.
C3_NonOwnerUpdateRejected ==
    [][(/\ Answers("updateProject")
        /\ \E f \in UpdateFields : ~Falsy(response'[1].req.body, f)
        /\ response'[1].req.projectId \in DOMAIN store
        /\ store[response'[1].req.projectId].owner # response'[1].req.user)
       => (/\ ErrorKind(response'[1]) = "AuthorizationError"
           /\ response'[1].status # 200
           /\ store' = store)]_vars

C3_Witness ==
    /\ Answered("updateProject")
    /\ response[1].req.projectId \in DOMAIN store
    /\ store[response[1].req.projectId].owner # response[1].req.user
    /\ ~Falsy(response[1].req.body, "name")
    /\ ErrorKind(response[1]) = "AuthorizationError"

\* C4: updateProject with a non-empty patch and a projectId that matches no
\* stored project fails with NotFoundError, and the store is unchanged.
C4_MissingProjectNotFound ==
    [][(/\ Answers("updateProject")
        /\ \E f \in UpdateFields : ~Falsy(response'[1].req.body, f)
        /\ response'[1].req.projectId \notin DOMAIN store)
       => (/\ ErrorKind(response'[1]) = "NotFoundError"
           /\ store' = store)]_vars

\* C5: getAllProjectsOfAUser answers 200 with exactly the stored projects
\* whose owner is the caller.
C5_ReturnsProjectsOfCaller ==
    Answered("getAllProjectsOfAUser") =>
        /\ response[1].status = 200
        /\ response[1].docs =
              {d \in Docs(store) : d.owner = response[1].req.user}

\* C6: a createProject request whose name is stored when the existence check
\* runs is answered with ConflictError by that step, is not passed on to the
\* insert, and the store is left as it was.
C6_ExistingNameConflict ==
    [][/\ \A e \in BagToSet(inflight') :
             (e.pc = "create" /\ Suspends(e)) => ~NameStored(e.req.body.name)
       /\ (/\ Answers("createProject")
           /\ inflight' = inflight
           /\ NonBlank(response'[1].req.body)
           /\ NameStored(response'[1].req.body.name))
          => (/\ ErrorKind(response'[1]) = "ConflictError"
              /\ response'[1].status # 200
              /\ store' = store)]_vars

C6_Witness ==
    /\ Answered("createProject")
    /\ NonBlank(response[1].req.body)
    /\ NameStored(response[1].req.body.name)
    /\ ErrorKind(response[1]) = "ConflictError"

\* C7: with requests one at a time, the answer to a createProject request
\* with four non-blank fields and a name no stored project has is 200, one
\* project is added to the store and nothing else changes, and the project
\* returned has the caller as owner and totalHours 0.
C7_ValidCreateSucceeds ==
    [][(/\ Answers("createProject")
        /\ NonBlank(response'[1].req.body)
        /\ ~NameStored(response'[1].req.body.name))
       => (/\ response'[1].status = 200
           /\ \E d \in response'[1].docs :
                /\ response'[1].docs = {d}
                /\ d.owner = response'[1].req.user
                /\ d.totalHours = 0
                /\ d.name = response'[1].req.body.name
                /\ d._id \notin DOMAIN store
                /\ DOMAIN store' = DOMAIN store \cup {d._id}
                /\ store'[d._id] = d
           /\ \A i \in DOMAIN store : store'[i] = store[i])]_vars

C7_Witness ==
    /\ Answered("createProject")
    /\ response[1].status = 200
    /\ \E d \in response[1].docs :
          /\ d.owner = response[1].req.user
          /\ d.totalHours = 0
          /\ d._id \in DOMAIN store
    /\ Cardinality(DOMAIN store) = 2

\* C8: with requests one at a time, a successful updateProject sets the
\* properties of the patch, keeps the value of every other one of the five,
\* keeps owner, members and totalHours, and changes no other project.
C8_UpdateFrame ==
    [][(Answers("updateProject") /\ response'[1].status = 200)
       => LET id == response'[1].req.projectId
              patch == response'[1].req.body
          IN  /\ id \in DOMAIN store
              /\ DOMAIN store' = DOMAIN store
              /\ \A f \in UpdateFields :
                    store'[id][f] =
                        IF f \in DOMAIN patch THEN patch[f] ELSE store[id][f]
              /\ \A f \in SchemaPaths \ UpdateFields :
                    store'[id][f] = store[id][f]
              /\ \A i \in DOMAIN store \ {id} : store'[i] = store[i]
              /\ response'[1].docs = {store'[id]}]_vars

C8_Witness ==
    /\ Answered("updateProject")
    /\ response[1].status = 200
    /\ DOMAIN response[1].req.body = {"name"}
    /\ LET d == store[response[1].req.projectId]
       IN  /\ d.description = <<"d2">>
           /\ d.members # <<>>
    /\ Cardinality(DOMAIN store) = 2

\* C9: deleteProject with a well-formed id of a stored project is answered
\* 200 whoever the caller is, the answer carries the project as it was, the
\* project is removed and no other project changes.
C9_DeleteByAnyCaller ==
    [][(/\ Answers("deleteProject")
        /\ response'[1].req.projectId \in DOMAIN store)
       => LET id == response'[1].req.projectId
          IN  /\ response'[1].status = 200
              /\ response'[1].docs = {store[id]}
              /\ DOMAIN store' = DOMAIN store \ {id}
              /\ \A i \in DOMAIN store' : store'[i] = store[i]]_vars

C9_Witness ==
    /\ Answered("deleteProject")
    /\ response[1].status = 200
    /\ \E d \in response[1].docs :
          /\ d.owner # response[1].req.user
          /\ d._id \notin DOMAIN store
    /\ DOMAIN store # {}

\* C10: the insert of a createProject request that passed the existence
\* check is unconditional: it adds a project of the request's name whatever
\* the store holds by then, so that two requests of one name which both
\* passed the check leave two projects of that name.
C10_InsertAfterCheckUnconditional ==
    [][\A e \in BagToSet(inflight) :
          (e.pc = "create" /\ Resumes(e)) =>
             /\ Answers("createProject")
             /\ response'[1].status = 200
             /\ \E d \in response'[1].docs :
                   /\ d.name = e.req.body.name
                   /\ d._id \notin DOMAIN store
                   /\ DOMAIN store' = DOMAIN store \cup {d._id}
                   /\ store'[d._id] = d]_vars

C10_Witness ==
    /\ Answered("createProject")
    /\ response[1].status = 200
    /\ \E i, j \in DOMAIN store :
          /\ i # j
          /\ store[i].name = store[j].name
          /\ store[i].name = response[1].req.body.name
====
